---- MODULE Spec2Model ----
(***************************************************************************)
(* Model of the IRC message codec of src/client/data/message.rs:           *)
(* Message::into_string, <Message as FromStr>::from_str and                 *)
(* Message::get_source_nickname.                                            *)
(*                                                                         *)
(* A Rust String / &str is a sequence of one-character strings (ASCII, one *)
(* byte per character).  Option<T> is a sequence of length 0 (None) or 1   *)
(* (Some(x)).  Byte offsets are 0-based as in the source.                  *)
(***************************************************************************)
EXTENDS Integers, Sequences, FiniteSets, TLC

VARIABLES line, msg, wire, result, nick, pc

vars == <<line, msg, wire, result, nick, pc>>

----------------------------------------------------------------------------
(* Bounds of the checked input space *)

\* longest body of an exhaustively enumerated input line (terminator excluded)
MaxBody == 5
\* most tokens after the command in a generated long line
MaxTokens == 15
\* most args of a generated Message
MaxArgs == 15
\* longest exhaustively enumerated prefix of a Message
MaxPrefixLen == 4
\* longest exhaustively enumerated tag section
MaxTagLen == 3

----------------------------------------------------------------------------
(* Option and str primitives *)

None == <<>>
Some(x) == <<x>>
IsSome(o) == Len(o) = 1
IsNone(o) == Len(o) = 0

CRLF == <<"\r", "\n">>

\* &s[a..b] on byte offsets
Slice(s, a, b) == SubSeq(s, a + 1, b)

\* str::starts_with for a one-character pattern
starts_with(s, c) == Len(s) > 0 /\ s[1] = c

\* str::find(char): offset of the first occurrence
find(s, c) ==
  IF \E i \in 1..Len(s) : s[i] = c
  THEN Some((CHOOSE i \in 1..Len(s) :
               s[i] = c /\ \A j \in 1..(i - 1) : s[j] # c) - 1)
  ELSE None

MatchAt(s, i, c1, c2) == i + 1 <= Len(s) /\ s[i] = c1 /\ s[i + 1] = c2

\* str::find(" :"): offset of the first occurrence of a two-character pattern
find_str(s, c1, c2) ==
  IF \E i \in 1..Len(s) : MatchAt(s, i, c1, c2)
  THEN Some((CHOOSE i \in 1..Len(s) :
               MatchAt(s, i, c1, c2)
               /\ \A j \in 1..(i - 1) : ~MatchAt(s, j, c1, c2)) - 1)
  ELSE None

\* str::contains(" :")
contains(s, c1, c2) == IsSome(find_str(s, c1, c2))

RECURSIVE split(_, _)
\* str::split(pat): every piece, empty ones included
split(s, c) ==
  LET i == find(s, c) IN
    IF IsNone(i) THEN <<s>>
    ELSE <<Slice(s, 0, i[1])>> \o split(Slice(s, i[1] + 1, Len(s)), c)

RECURSIVE splitn(_, _, _)
\* str::splitn(n, pat): at most n pieces, the last one holding the remainder
splitn(n, s, c) ==
  LET i == find(s, c) IN
    IF n <= 1 \/ IsNone(i) THEN <<s>>
    ELSE <<Slice(s, 0, i[1])>> \o splitn(n - 1, Slice(s, i[1] + 1, Len(s)), c)

\* .filter(|s| s.len() != 0)
NonEmptyOnly(pieces) == SelectSeq(pieces, LAMBDA p : Len(p) # 0)

----------------------------------------------------------------------------
(* Data model *)

\* struct Tag(String, Option<String>)
Tag(fst, snd) == <<fst, snd>>

\* Message::with_tags
with_tags(tags, prefix, command, args, suffix) ==
  [tags    |-> tags,
   prefix  |-> prefix,
   command |-> command,
   args    |-> IF IsSome(args) THEN args[1] ELSE <<>>,
   suffix  |-> suffix]

\* Message::new
new(prefix, command, args, suffix) ==
  with_tags(None, prefix, command, args, suffix)

\* Result<Message, &'static str>, and the abort of the call by a panic
Ok(m) == [kind |-> "Ok", val |-> m]
Err(e) == [kind |-> "Err", val |-> e]
Panic == [kind |-> "Panic", val |-> "panic"]

EmptyInput == "Cannot parse an empty string as a message."
MissingCommand == "Cannot parse a message without a command."

ArgCap == 14


----------------------------------------------------------------------------
(* Message::get_source_nickname *)

\* variant giving '@' priority over '!'
get_source_nickname_at_first(m) ==
  IF IsNone(m.prefix) THEN None
  ELSE LET s == m.prefix[1]
           bang == find(s, "!")
           at == find(s, "@")
           dot == find(s, ".")
       IN IF IsSome(dot) THEN None
          ELSE IF IsSome(at) THEN Some(Slice(s, 0, at[1]))
          ELSE IF IsSome(bang) THEN Some(Slice(s, 0, bang[1]))
          ELSE Some(s)

get_source_nickname(m) ==
  IF IsNone(m.prefix) THEN None
  ELSE LET s == m.prefix[1]
           bang == find(s, "!")
           at == find(s, "@")
           dot == find(s, ".")
       IN IF IsSome(dot) THEN None                          \* (_, _, Some(_))
          ELSE IF IsSome(bang) THEN Some(Slice(s, 0, bang[1])) \* (Some(i), _, None)
          ELSE IF IsSome(at) THEN Some(Slice(s, 0, at[1]))  \* (None, Some(i), None)
          ELSE Some(s)                                      \* (None, None, None)

----------------------------------------------------------------------------
(* Message::into_string *)

RECURSIVE push_args(_, _)
\* for arg in self.args.iter() { ret.push(' '); ret.push_str(&arg); }
push_args(ret, args) ==
  IF Len(args) = 0 THEN ret
  ELSE push_args(ret \o <<" ">> \o Head(args), Tail(args))

\* variant that leaves out the marker of an empty suffix
into_string_skip_empty_suffix(m) ==
  LET r1 == IF IsSome(m.prefix) THEN <<":">> \o m.prefix[1] \o <<" ">> ELSE <<>>
      r2 == r1 \o m.command
      r3 == push_args(r2, m.args)
      r4 == IF IsSome(m.suffix) /\ Len(m.suffix[1]) # 0
            THEN r3 \o <<" ", ":">> \o m.suffix[1] ELSE r3
  IN r4 \o CRLF

into_string(m) ==
  LET r1 == IF IsSome(m.prefix) THEN <<":">> \o m.prefix[1] \o <<" ">> ELSE <<>>
      r2 == r1 \o m.command
      r3 == push_args(r2, m.args)
      r4 == IF IsSome(m.suffix) THEN r3 \o <<" ", ":">> \o m.suffix[1] ELSE r3
  IN r4 \o CRLF

----------------------------------------------------------------------------
(* <Message as FromStr>::from_str *)

\* one fragment of the tag section: s.splitn(2, "=") -> Tag(fst, snd)
MakeTag(frag) ==
  LET iter == splitn(2, frag, "=") IN
    Tag(iter[1], IF Len(iter) >= 2 THEN Some(iter[2]) ELSE None)

\* ts.split(";").filter(|s| s.len() != 0).map(...).collect()
ParseTags(ts) ==
  LET frags == NonEmptyOnly(split(ts, ";")) IN
    [i \in 1..Len(frags) |-> MakeTag(frags[i])]

\* the tag section: tags and the text left after it
TagStep(s) ==
  IF starts_with(s, "@")
  THEN LET sp == find(s, " ") IN
         [tags  |-> IF IsSome(sp) THEN Some(ParseTags(Slice(s, 1, sp[1]))) ELSE None,
          state |-> IF IsSome(sp) THEN Slice(s, sp[1] + 1, Len(s)) ELSE <<>>]
  ELSE [tags |-> None, state |-> s]

\* the prefix: prefix and the text left after it
PrefixStep(state) ==
  IF starts_with(state, ":")
  THEN LET sp == find(state, " ") IN
         [prefix |-> IF IsSome(sp) THEN Some(Slice(state, 1, sp[1])) ELSE None,
          state  |-> IF IsSome(sp) THEN Slice(state, sp[1] + 1, Len(state)) ELSE <<>>]
  ELSE [prefix |-> None, state |-> state]

\* variant taking any colon after the first character as the start of the suffix
suffix_marker_any_colon(state) ==
  LET i == find(state, ":") IN
    IF IsSome(i) /\ i[1] > 0 THEN Some(i[1] - 1) ELSE None

\* state.find(" :")
suffix_marker(state) == find_str(state, " ", ":")

\* the trailing parameter: &state[i+2..state.len()-2] panics when i+2 > len-2
SuffixStep(state) ==
  LET i == suffix_marker(state) IN
    IF IsSome(i)
    THEN IF i[1] + 2 > Len(state) - 2
         THEN [panic |-> TRUE, suffix |-> None, state |-> state]
         ELSE [panic  |-> FALSE,
               suffix |-> Some(Slice(state, i[1] + 2, Len(state) - 2)),
               state  |-> Slice(state, 0, i[1] + 1)]
    ELSE [panic |-> FALSE, suffix |-> None, state |-> state]

\* the command: the text up to the first space, None when there is no space
CommandStep(state) ==
  LET sp == find(state, " ") IN
    [command |-> IF IsSome(sp) THEN Some(Slice(state, 0, sp[1])) ELSE None,
     state   |-> IF IsSome(sp) THEN Slice(state, sp[1] + 1, Len(state)) ELSE <<>>]

\* state.splitn(14, ' ').filter(|s| s.len() != 0).collect()
ArgsOf(state) == NonEmptyOnly(splitn(ArgCap, state, " "))

from_str(s) ==
  IF Len(s) = 0 THEN Err(EmptyInput)
  ELSE LET t == TagStep(s)
           p == PrefixStep(t.state)
           x == SuffixStep(p.state)
           c == CommandStep(x.state)
       IN IF x.panic THEN Panic
          ELSE IF IsNone(c.command) THEN Err(MissingCommand)
          \* &state[..state.len() - 2] panics when state.len() < 2
          ELSE IF IsNone(x.suffix) /\ Len(c.state) < 2 THEN Panic
          ELSE LET st == IF IsNone(x.suffix)
                         THEN Slice(c.state, 0, Len(c.state) - 2)
                         ELSE c.state
                   args == ArgsOf(st)
               IN Ok(with_tags(t.tags, p.prefix, c.command[1],
                               IF Len(args) > 0 THEN Some(args) ELSE None,
                               x.suffix))

----------------------------------------------------------------------------
(* Inputs *)

\* every string over alphabet A of length at most n
Strings(A, n) == UNION {[1..k -> A] : k \in 0..n}

RECURSIVE Concat(_)
Concat(ss) == IF Len(ss) = 0 THEN <<>> ELSE Head(ss) \o Concat(Tail(ss))

LineAlphabet == {" ", ":", "@", "=", "a"}

\* every short line, with and without the terminator
ShortLines ==
  {b \o t : b \in Strings(LineAlphabet, MaxBody), t \in {<<>>, CRLF}}

\* a tag section in front of a well-formed command with one argument
TagLines ==
  {<<"@">> \o ts \o <<" ", "C", " ", "a">> \o CRLF :
     ts \in Strings({";", "=", "k"}, MaxTagLen)}

Letters == <<"a", "b", "c", "d", "e", "f", "g", "h",
             "i", "j", "k", "l", "m", "n", "o", "p">>

\* the k-th generated token
Tok(k) == <<Letters[((k - 1) % Len(Letters)) + 1]>>

\* tokens 1..n, each after a single space, token d after two spaces; with
\* colon set, the first token carries an embedded colon
SpacedTokens(n, d, colon) ==
  Concat([k \in 1..n |->
            (IF k = d THEN <<" ", " ">> ELSE <<" ">>)
            \o Tok(k)
            \o (IF colon /\ k = 1 THEN <<":", "x">> ELSE <<>>)])

LineHeads == {<<>>, <<":", "p", " ">>, <<"@", "t", "=", "v", " ", ":", "p", " ">>}
LineSuffixes == {None, Some(<<>>), Some(<<"x", " ", ":", "y">>)}

\* CRLF-terminated lines with up to MaxTokens tokens after the command
LongLines ==
  {h \o <<"C">> \o SpacedTokens(n, d, colon)
     \o (IF IsSome(sfx) THEN <<" ", ":">> \o sfx[1] ELSE <<>>) \o CRLF :
     h \in LineHeads, n \in 0..MaxTokens, d \in {0, 1, 2}, colon \in BOOLEAN,
     sfx \in LineSuffixes}

Lines == ShortLines \cup TagLines \cup LongLines

TagChoices == {None, Some(<<>>), Some(<<Tag(<<"k">>, Some(<<"v">>)), Tag(<<"f">>, None)>>)}

\* Messages over every short prefix, for the nickname extractor
NickMessages ==
  {with_tags(tg, Some(p), <<"P", "I", "N", "G">>, None, sfx) :
     tg \in {None, Some(<<Tag(<<"k">>, None)>>)},
     p \in Strings({"n", "!", "@", "."}, MaxPrefixLen),
     sfx \in {None, Some(<<"s">>)}}

PrefixChoices == {None, Some(<<>>), Some(<<"n", "!", "u", "@", "h">>), Some(<<"n", " ", "x">>)}
CommandChoices == {<<"C">>, <<>>, <<"C", " ", "D">>, <<":", "C">>, <<"@", "C">>}
SuffixChoices == {None, Some(<<>>), Some(<<"s">>), Some(<<"s", " ", ":", "t">>)}
ArgShapes == {"plain", "space", "colon", "empty"}

\* n args; the last one is shaped: plain token, holding a space, starting
\* with a colon, or empty
ArgsOfShape(n, shape) ==
  [k \in 1..n |->
     IF k < n \/ shape = "plain" THEN Tok(k)
     ELSE IF shape = "space" THEN Tok(k) \o <<" ", "z">>
     ELSE IF shape = "colon" THEN <<":">> \o Tok(k)
     ELSE <<>>]

\* Messages as a caller may construct them (the fields are public)
WireMessages ==
  {with_tags(tg, p, c, Some(ArgsOfShape(n, shape)), sfx) :
     tg \in TagChoices, p \in PrefixChoices, c \in CommandChoices,
     n \in 0..MaxArgs, shape \in ArgShapes, sfx \in SuffixChoices}

Messages == NickMessages \cup WireMessages

----------------------------------------------------------------------------
(* The state machine: one call on one input *)

Init ==
  /\ pc = "start"
  /\ wire = None
  /\ result = None
  /\ nick = None
  /\ \/ line \in {Some(l) : l \in Lines} /\ msg = None
     \/ msg \in {Some(m) : m \in Messages} /\ line = None

\* line.parse::<Message>()
FromStr ==
  /\ pc = "start"
  /\ IsSome(line)
  /\ result' = Some(from_str(line[1]))
  /\ pc' = "parsed"
  /\ UNCHANGED <<line, msg, wire, nick>>

\* msg.into_string()
IntoString ==
  /\ pc = "start"
  /\ IsSome(msg)
  /\ wire' = Some(into_string(msg[1]))
  /\ pc' = "serialized"
  /\ UNCHANGED <<line, msg, result, nick>>

\* msg.into_string().parse::<Message>()
Reparse ==
  /\ pc = "serialized"
  /\ result' = Some(from_str(wire[1]))
  /\ pc' = "reparsed"
  /\ UNCHANGED <<line, msg, wire, nick>>

\* msg.get_source_nickname()
GetSourceNickname ==
  /\ pc = "start"
  /\ IsSome(msg)
  /\ nick' = Some(get_source_nickname(msg[1]))
  /\ pc' = "nick"
  /\ UNCHANGED <<line, msg, wire, result>>

Next == FromStr \/ IntoString \/ Reparse \/ GetSourceNickname

Spec == Init /\ [][Next]_vars

----------------------------------------------------------------------------
(* Vocabulary of the properties *)

Chars(s) == {s[i] : i \in 1..Len(s)}
HasSpace(s) == " " \in Chars(s)
RemoveSpaces(s) == SelectSeq(s, LAMBDA ch : ch # " ")
EndsWithCRLF(l) == Len(l) >= 2 /\ SubSeq(l, Len(l) - 1, Len(l)) = CRLF

\* the space-delimited non-empty tokens of a text, uncapped
Tokens(s) == NonEmptyOnly(split(s, " "))

\* the text left after the optional tag section and the optional prefix
Rest(l) == PrefixStep(TagStep(l).state).state

\* positions (1-based) in s of a space immediately followed by a colon
MarkerPositions(s) == {i \in 1..(Len(s) - 1) : s[i] = " " /\ s[i + 1] = ":"}
FirstMarker(s) == CHOOSE i \in MarkerPositions(s) : \A j \in MarkerPositions(s) : i <= j

\* the part of Rest(l) that holds the command and the positional
\* arguments: up to the first marker, or up to the terminator
HeadText(l) ==
  LET r == Rest(l) IN
    IF MarkerPositions(r) # {} THEN SubSeq(r, 1, FirstMarker(r) - 1)
    ELSE IF EndsWithCRLF(r) THEN SubSeq(r, 1, Len(r) - 2)
    ELSE r

Parsed == pc = "parsed" /\ result[1].kind = "Ok"
ParsedCRLF == Parsed /\ EndsWithCRLF(line[1])

\* r is a successful parse equal to m in prefix, command, args and suffix
SameFields(r, m) ==
  /\ r.kind = "Ok"
  /\ r.val.prefix = m.prefix
  /\ r.val.command = m.command
  /\ r.val.args = m.args
  /\ r.val.suffix = m.suffix

----------------------------------------------------------------------------
(* Properties *)

\* C1: for any Message constructed without tags, parsing the line produced
\* by serializing it succeeds and returns the same prefix, command, args and
\* suffix.
RoundTripAnyTagless ==
  (pc = "reparsed" /\ IsNone(msg[1].tags)) => SameFields(result[1], msg[1])

\* C2: every input, CRLF-terminated or not, ends in a Message, EmptyInput or
\* MissingCommand and in nothing else (no abort); EmptyInput exactly for the
\* input of length zero.
ParseOutcomesClosed ==
  pc = "parsed" =>
    LET r == result[1] IN
      /\ r.kind \in {"Ok", "Err"}
      /\ r.kind = "Err" => r.val \in {EmptyInput, MissingCommand}
      /\ (r.kind = "Err" /\ r.val = EmptyInput) <=> Len(line[1]) = 0

\* C3: the command of a successfully parsed Message is never empty.
CommandNeverEmpty ==
  Parsed => Len(result[1].val.command) > 0

\* C4: a CRLF-terminated line whose text after tags and prefix is a single
\* token parses to that token as command, with no args and no suffix; and
\* MissingCommand is returned only when that text holds no token at all.
CommandOnlyLineParses ==
  (pc = "parsed" /\ EndsWithCRLF(line[1])) =>
    LET r == result[1]
        rest == Rest(line[1])
        tok == IF EndsWithCRLF(rest) THEN SubSeq(rest, 1, Len(rest) - 2) ELSE <<>>
    IN /\ (Len(tok) > 0 /\ ~HasSpace(tok)) =>
            /\ r.kind = "Ok"
            /\ r.val.command = tok
            /\ r.val.args = <<>>
            /\ r.val.suffix = None
       /\ (r.kind = "Err" /\ r.val = MissingCommand) =>
            Tokens(HeadText(line[1])) = <<>>

\* C5: for a CRLF-terminated line that parses, suffix is present exactly
\* when the text after tags and prefix holds a space immediately followed by
\* a colon; it is then all the text after the first such marker up to the
\* terminator; every other character, colons included, stays in the command
\* or in a positional argument.
SuffixDetection ==
  ParsedCRLF =>
    LET m == result[1].val
        rest == Rest(line[1])
        marked == MarkerPositions(rest) # {}
    IN /\ IsSome(m.suffix) <=> marked
       /\ marked => m.suffix[1] = SubSeq(rest, FirstMarker(rest) + 2, Len(rest) - 2)
       /\ RemoveSpaces(m.command \o Concat(m.args)) = RemoveSpaces(HeadText(line[1]))

\* a parsed line whose first argument keeps an embedded colon while the
\* suffix starts at the first marker and keeps a later one
SuffixDetectionWitness ==
  /\ ParsedCRLF
  /\ Len(result[1].val.args) >= 1
  /\ result[1].val.args[1] = <<"a", ":", "x">>
  /\ result[1].val.suffix = Some(<<"x", " ", ":", "y">>)

\* C6: for a CRLF-terminated line that parses, args has at most 14
\* elements, none of them empty, they are the space-delimited tokens after
\* the command in wire order, and only the 14th element may contain a space.
ArgsCappedTokens ==
  ParsedCRLF =>
    LET m == result[1].val
        argText == CommandStep(HeadText(line[1])).state
    IN /\ Len(m.args) <= ArgCap
       /\ \A k \in 1..Len(m.args) :
            /\ Len(m.args[k]) > 0
            /\ HasSpace(m.args[k]) => k = ArgCap
       /\ Concat([k \in 1..Len(m.args) |-> Tokens(m.args[k])]) = Tokens(argText)

\* the line that into_string is specified to produce
WireForm(m) ==
  (IF m.prefix # None THEN <<":">> \o m.prefix[1] \o <<" ">> ELSE <<>>)
  \o m.command
  \o Concat([k \in 1..Len(m.args) |-> <<" ">> \o m.args[k]])
  \o (IF m.suffix # None THEN <<" ", ":">> \o m.suffix[1] ELSE <<>>)
  \o CRLF

\* C7: serializing always yields ':' prefix ' ' (iff prefix present), the
\* command, a space and the arg for each arg in order, ' :' suffix (iff
\* suffix present, an empty one included) and the terminator; the line does
\* not depend on tags.
SerializerForm ==
  pc \in {"serialized", "reparsed"} =>
    /\ IsSome(wire)
    /\ wire[1] = WireForm(msg[1])
    /\ \A tg \in TagChoices : into_string([msg[1] EXCEPT !.tags = tg]) = wire[1]

\* a serialized Message with tags, a prefix, several args and an empty suffix
SerializerFormWitness ==
  /\ pc = "serialized"
  /\ IsSome(msg[1].tags) /\ Len(msg[1].tags[1]) > 0
  /\ IsSome(msg[1].prefix)
  /\ Len(msg[1].args) >= 2
  /\ msg[1].suffix = Some(<<>>)
  /\ wire[1] = <<":", "n", "!", "u", "@", "h", " ", "C", " ", "a", " ", "b",
                 " ", ":", "\r", "\n">>

\* the text of s before the first occurrence of c
Before(s, c) ==
  LET k == CHOOSE i \in 1..Len(s) : s[i] = c /\ c \notin Chars(SubSeq(s, 1, i - 1))
  IN SubSeq(s, 1, k - 1)

\* C8: the source nickname depends on prefix alone: absent without prefix;
\* absent when prefix has a '.'; else the text before the first '!' if there
\* is one; else the text before the first '@' if there is one; else prefix.
NicknamePolicy ==
  pc = "nick" =>
    LET m == msg[1]
        expected ==
          IF m.prefix = None THEN None
          ELSE IF "." \in Chars(m.prefix[1]) THEN None
          ELSE IF "!" \in Chars(m.prefix[1]) THEN Some(Before(m.prefix[1], "!"))
          ELSE IF "@" \in Chars(m.prefix[1]) THEN Some(Before(m.prefix[1], "@"))
          ELSE Some(m.prefix[1])
    IN /\ nick[1] = expected
       /\ get_source_nickname([m EXCEPT !.tags = Some(<<>>), !.command = <<"X">>,
                                        !.args = <<<<"a">>>>, !.suffix = Some(<<"q">>)])
            = nick[1]

\* the nickname of a prefix with an '@' ahead of its first '!'
NicknamePolicyWitness ==
  /\ pc = "nick"
  /\ msg[1].prefix = Some(<<"n", "@", "n", "!">>)
  /\ nick[1] = Some(<<"n", "@", "n">>)

\* the tag section of a line that starts with '@' and has a space
TagSection(l) == Slice(l, 1, find(l, " ")[1])

\* the fragment a Tag was read from
Fragment(tag) ==
  tag[1] \o (IF tag[2] # None THEN <<"=">> \o tag[2][1] ELSE <<>>)

\* C9: every Tag of a successfully parsed line has a non-empty key: the key
\* is the text of a non-empty ';'-separated fragment before its first '=',
\* and the value is absent exactly when the fragment has no '='.
TagKeysNonEmpty ==
  (Parsed /\ IsSome(result[1].val.tags)) =>
    LET tags == result[1].val.tags[1] IN
      /\ \A i \in 1..Len(tags) : Len(tags[i][1]) > 0 /\ "=" \notin Chars(tags[i][1])
      /\ Concat([i \in 1..Len(tags) |-> Fragment(tags[i])])
           = SelectSeq(TagSection(line[1]), LAMBDA ch : ch # ";")

\* a Message that the wire grammar can carry
WireSafe(m) ==
  /\ IsNone(m.tags)
  /\ Len(m.command) > 0 /\ ~HasSpace(m.command) /\ m.command[1] \notin {":", "@"}
  /\ IsSome(m.prefix) => ~HasSpace(m.prefix[1])
  /\ Len(m.args) <= ArgCap
  /\ \A k \in 1..Len(m.args) :
       Len(m.args[k]) > 0 /\ ~HasSpace(m.args[k]) /\ m.args[k][1] # ":"
  /\ Len(m.args) >= 1 \/ IsSome(m.suffix)

\* C10: every wire-safe tagless Message with at least one arg or a suffix
\* round-trips through serialize and parse, 14 args together with a suffix
\* included.
RoundTripWireSafe ==
  (pc = "reparsed" /\ WireSafe(msg[1])) => SameFields(result[1], msg[1])

====
